---- MODULE Spec2Model ----
(***************************************************************************)
(* Model of solution.js: base-N decoding of point values (parseBigInt),    *)
(* construction of the point list (decodeFromJSON), Lagrange interpolation *)
(* at zero (findConstantWithLagrange) and the run of main().               *)
(*                                                                         *)
(* JavaScript values are modelled as follows.                              *)
(*   string            a sequence of one-character strings                 *)
(*   string|undefined  [undef |-> BOOLEAN, s |-> string]                   *)
(*   Number            [nan |-> BOOLEAN, v |-> Int]                        *)
(*   BigInt            Int                                                 *)
(*   value or throw    [ok |-> BOOLEAN, val |-> ..., err |-> error name]   *)
(***************************************************************************)
EXTENDS Integers, Sequences, FiniteSets, TLC

VARIABLES pc, jsonData, processedData, stderr, stdout,
          solveArgs, solveRets, poly,
          parseArgs, parseRet

vars == <<pc, jsonData, processedData, stderr, stdout,
          solveArgs, solveRets, poly, parseArgs, parseRet>>

mainVars == <<pc, jsonData, processedData, stderr, stdout>>
solveVars == <<solveArgs, solveRets, poly>>
parseVars == <<parseArgs, parseRet>>

----------------------------------------------------------------------------
(* Bounds of the explored inputs.                                          *)

MaxLen == 4
MaxMembers == 2
MaxK == 3
MaxCalls == 2

----------------------------------------------------------------------------
(* JavaScript value helpers.                                               *)

NaN == [nan |-> TRUE, v |-> 0]
Num(n) == [nan |-> FALSE, v |-> n]

Undefined == [undef |-> TRUE, s |-> <<>>]
Str(s) == [undef |-> FALSE, s |-> s]

Ok(v) == [ok |-> TRUE, val |-> v, err |-> ""]
Throw(e) == [ok |-> FALSE, val |-> 0, err |-> e]

Abs(n) == IF n < 0 THEN -n ELSE n

BigIntDiv_zeroDivisorGivesZero(a, b) ==
  IF b = 0 THEN Ok(0)
  ELSE IF (a < 0) = (b < 0) THEN Ok(Abs(a) \div Abs(b))
  ELSE Ok(-(Abs(a) \div Abs(b)))

(* BigInt `/`: truncates toward zero, RangeError on a zero divisor.        *)
BigIntDiv(a, b) ==
  IF b = 0 THEN Throw("RangeError")
  ELSE IF (a < 0) = (b < 0) THEN Ok(Abs(a) \div Abs(b))
  ELSE Ok(-(Abs(a) \div Abs(b)))

LowerDigits == <<"0","1","2","3","4","5","6","7","8","9",
                 "a","b","c","d","e","f","g","h","i","j","k","l","m",
                 "n","o","p","q","r","s","t","u","v","w","x","y","z">>
UpperLetters == <<"A","B","C","D","E","F","G","H","I","J","K","L","M",
                  "N","O","P","Q","R","S","T","U","V","W","X","Y","Z">>

(* parseInt(char, 36) of a one-character string.                           *)
parseIntChar36(char) ==
  IF \E d \in 1..36 : LowerDigits[d] = char
    THEN Num((CHOOSE d \in 1..36 : LowerDigits[d] = char) - 1)
  ELSE IF \E d \in 1..26 : UpperLetters[d] = char
    THEN Num((CHOOSE d \in 1..26 : UpperLetters[d] = char) + 9)
  ELSE NaN

IsDecimalDigit(char) == \E d \in 1..10 : LowerDigits[d] = char

RECURSIVE DecimalPrefix(_, _, _)
(* Value of the run of decimal digits of s starting at index i.            *)
DecimalPrefix(s, i, acc) ==
  IF i > Len(s) \/ ~IsDecimalDigit(s[i]) THEN acc
  ELSE DecimalPrefix(s, i + 1, acc * 10 + parseIntChar36(s[i]).v)

(* parseInt(x, 10) of a string (or undefined): optional sign, then the     *)
(* leading decimal digits; NaN when there are none.                        *)
parseInt10(x) ==
  IF x.undef THEN NaN
  ELSE LET s == x.s
           neg == Len(s) >= 1 /\ s[1] = "-"
           from == IF Len(s) >= 1 /\ s[1] \in {"-", "+"} THEN 2 ELSE 1
       IN IF from > Len(s) \/ ~IsDecimalDigit(s[from]) THEN NaN
          ELSE IF neg THEN Num(-DecimalPrefix(s, from, 0))
          ELSE Num(DecimalPrefix(s, from, 0))

----------------------------------------------------------------------------
(* parseBigInt(str, base)                                                  *)

RECURSIVE parseBigIntLoop(_, _, _, _)
parseBigIntLoop(str, i, result, bigBase) ==
  IF i > Len(str) THEN Ok(result)
  ELSE LET digit == parseIntChar36(str[i])
       IN IF digit.nan THEN Throw("RangeError")
          ELSE parseBigIntLoop(str, i + 1, result * bigBase + digit.v, bigBase)

parseBigInt_skipsFirst(str, base) ==
  IF base.nan THEN Throw("RangeError")
  ELSE IF str.undef THEN Throw("TypeError")
  ELSE parseBigIntLoop(str.s, 2, 0, base.v)

parseBigInt(str, base) ==
  IF base.nan THEN Throw("RangeError")
  ELSE IF str.undef THEN Throw("TypeError")
  ELSE parseBigIntLoop(str.s, 1, 0, base.v)

----------------------------------------------------------------------------
(* The threshold k as read from JSON: data.keys.k is a Number (kept as     *)
(* twice its value, so that 1.5 is representable), undefined (no k field)  *)
(* or a non-numeric string.                                                *)

KNum(n) == [t |-> "number", v2 |-> 2 * n]
KHalves(h) == [t |-> "number", v2 |-> h]
KUndefined == [t |-> "undefined", v2 |-> 0]
KString == [t |-> "string", v2 |-> 0]

Min(a, b) == IF a < b THEN a ELSE b
Max(a, b) == IF a > b THEN a ELSE b

(* ToIntegerOrInfinity of the slice end: truncation toward zero; NaN -> 0. *)
ToInteger(end) ==
  IF end.t = "number"
    THEN IF end.v2 < 0 THEN -(Abs(end.v2) \div 2) ELSE end.v2 \div 2
    ELSE 0

(* Array.prototype.slice(0, end)                                           *)
slice(arr, end) ==
  LET len == Len(arr)
      relEnd == IF end.t = "undefined" THEN len ELSE ToInteger(end)
      final == IF relEnd < 0 THEN Max(len + relEnd, 0) ELSE Min(relEnd, len)
  IN SubSeq(arr, 1, final)

lengthLessThan_reversed(len, kval) ==
  kval.t = "number" /\ kval.v2 < 2 * len

(* points.length < k  (a non-numeric k converts to NaN: false)             *)
lengthLessThan(len, kval) ==
  kval.t = "number" /\ 2 * len < kval.v2

----------------------------------------------------------------------------
(* findConstantWithLagrange(allPoints, k)                                  *)

RECURSIVE innerLoop_numeratorXj(_, _, _, _, _)
innerLoop_numeratorXj(selectedPoints, j, i, termNumerator, termDenominator) ==
  IF i > Len(selectedPoints)
    THEN [termNumerator |-> termNumerator, termDenominator |-> termDenominator]
  ELSE IF i = j
    THEN innerLoop_numeratorXj(selectedPoints, j, i + 1,
                               termNumerator, termDenominator)
  ELSE LET x_i == selectedPoints[i].x
           x_j == selectedPoints[j].x
       IN innerLoop_numeratorXj(selectedPoints, j, i + 1,
                                termNumerator * x_j, termDenominator * (x_i - x_j))

RECURSIVE innerLoop(_, _, _, _, _)
(* Lines 167-178: the product over i # j of x_i and of (x_i - x_j).        *)
innerLoop(selectedPoints, j, i, termNumerator, termDenominator) ==
  IF i > Len(selectedPoints)
    THEN [termNumerator |-> termNumerator, termDenominator |-> termDenominator]
  ELSE IF i = j
    THEN innerLoop(selectedPoints, j, i + 1, termNumerator, termDenominator)
  ELSE LET x_i == selectedPoints[i].x
           x_j == selectedPoints[j].x
       IN innerLoop(selectedPoints, j, i + 1,
                    termNumerator * x_i, termDenominator * (x_i - x_j))

RECURSIVE outerLoop(_, _, _)
(* Lines 157-183: the sum over j of termNumerator / termDenominator.       *)
outerLoop(selectedPoints, j, constantC) ==
  IF j > Len(selectedPoints) THEN Ok(constantC)
  ELSE LET term == innerLoop(selectedPoints, j, 1, selectedPoints[j].y, 1)
           quotient == BigIntDiv(term.termNumerator, term.termDenominator)
       IN IF ~quotient.ok THEN quotient
          ELSE outerLoop(selectedPoints, j + 1, constantC + quotient.val)

findConstantWithLagrange(allPoints, k) ==
  outerLoop(slice(allPoints, k), 1, 0)

----------------------------------------------------------------------------
(* decodeFromJSON(data)                                                    *)
(*                                                                         *)
(* The parsed JSON object is [null, keys, members]: keys is the value of   *)
(* its "keys" property ([present, k]) and members are its other            *)
(* properties in the order the JSON text declares them, each               *)
(* [key, base, value] with base and value the fields of the entry.  The    *)
(* "keys" property itself is not numeric and is skipped by the loop.       *)

AllDecimal(key) == \A i \in 1..Len(key) : IsDecimalDigit(key[i])

(* A canonical array index: decimal, no leading zero.                      *)
IsArrayIndex(key) ==
  /\ Len(key) >= 1
  /\ AllDecimal(key)
  /\ (Len(key) = 1 \/ key[1] # "0")

(* isNaN(key): Number("") is 0, a string of decimal digits is a number,    *)
(* anything else over the modelled alphabet is NaN.                        *)
isNaN(key) == ~AllDecimal(key)

(* BigInt(key) of a key that passed the isNaN test.                        *)
BigIntOfKey(key) == DecimalPrefix(key, 1, 0)

RECURSIVE AscendingIndices(_, _)
(* The member positions in S, by ascending numeric key.                    *)
AscendingIndices(members, S) ==
  IF S = {} THEN <<>>
  ELSE LET m == CHOOSE a \in S : \A b \in S :
                  BigIntOfKey(members[a].key) <= BigIntOfKey(members[b].key)
       IN <<m>> \o AscendingIndices(members, S \ {m})

RECURSIVE DeclaredIndices(_, _)
(* The member positions from i on that are not array indices.              *)
DeclaredIndices(members, i) ==
  IF i > Len(members) THEN <<>>
  ELSE IF IsArrayIndex(members[i].key) THEN DeclaredIndices(members, i + 1)
  ELSE <<i>> \o DeclaredIndices(members, i + 1)

forIn_declarationOrder(members) ==
  [i \in 1..Len(members) |-> i]

(* for (const key in data): array-index keys in ascending numeric order,   *)
(* then the remaining keys in order of creation.                           *)
forIn(members) ==
  AscendingIndices(members,
                   {i \in 1..Len(members) : IsArrayIndex(members[i].key)})
    \o DeclaredIndices(members, 1)

NullData == [null |-> TRUE, k |-> KUndefined, points |-> <<>>]

RECURSIVE decodeLoop(_, _, _, _)
(* Lines 121-130.                                                          *)
decodeLoop(members, order, n, points) ==
  IF n > Len(order) THEN Ok(points)
  ELSE LET pointData == members[order[n]]
       IN IF isNaN(pointData.key)
            THEN decodeLoop(members, order, n + 1, points)
          ELSE LET x == BigIntOfKey(pointData.key)
                   base == parseInt10(pointData.base)
                   y == parseBigInt(pointData.value, base)
               IN IF ~y.ok THEN Throw(y.err)
                  ELSE decodeLoop(members, order, n + 1,
                                  Append(points, [x |-> x, y |-> y.val]))

decodeFromJSON_skipsBadEntries(data) ==
  LET good == SelectSeq(data.members,
                LAMBDA m : isNaN(m.key)
                           \/ parseBigInt(m.value, parseInt10(m.base)).ok)
      points == decodeLoop(good, forIn(good), 1, <<>>)
  IN IF ~data.keys.present THEN NullData
     ELSE [null |-> FALSE, k |-> data.keys.k, points |-> points.val]

decodeFromJSON(data) ==
  IF ~data.keys.present THEN NullData
  ELSE LET points == decodeLoop(data.members, forIn(data.members), 1, <<>>)
       IN IF ~points.ok THEN NullData
          ELSE [null |-> FALSE, k |-> data.keys.k, points |-> points.val]

----------------------------------------------------------------------------
(* Explored inputs.                                                        *)

SeqsUpTo(S, n) == UNION {[1..m -> S] : m \in 0..n}

(* Thresholds: -1 .. MaxK, 1.5, a missing k and a non-numeric k.           *)
KVals == {KUndefined, KString, KHalves(3)} \cup {KNum(n) : n \in (-1)..MaxK}

KeysVals ==
  {[present |-> FALSE, k |-> KUndefined]}
    \cup {[present |-> TRUE, k |-> kv] : kv \in KVals}

MemberKeys == {<<"1">>, <<"2">>, <<"3">>, <<"0", "1">>, <<"n">>}

PointObjs ==
  { [base |-> Str(<<"1", "0">>), value |-> Str(<<"7">>)],
    [base |-> Str(<<"2">>),      value |-> Str(<<"1", "1">>)],
    [base |-> Str(<<"2">>),      value |-> Str(<<"2">>)],
    [base |-> Undefined,         value |-> Str(<<"1">>)],
    [base |-> Str(<<"2">>),      value |-> Undefined] }

MemberSet ==
  {[key |-> key, base |-> o.base, value |-> o.value] :
     key \in MemberKeys, o \in PointObjs}

Inputs ==
  {[null |-> FALSE, keys |-> kv, members |-> ms] :
     kv \in KeysVals,
     ms \in {s \in SeqsUpTo(MemberSet, MaxMembers) :
               \A a, b \in 1..Len(s) : a # b => s[a].key # s[b].key}}

NullJson == [null |-> TRUE, keys |-> [present |-> FALSE, k |-> KUndefined],
             members |-> <<>>]

NoOutput == [printed |-> FALSE, val |-> 0]

Coeffs == {-1, 0, 1, 3}
Xs == {1, 2, 3, 4}

RECURSIVE Eval(_, _, _)
(* coeffs[i] + coeffs[i+1]*x + ... (Horner); coeffs[1] is the constant.    *)
Eval(coeffs, i, x) ==
  IF i > Len(coeffs) THEN 0 ELSE coeffs[i] + x * Eval(coeffs, i + 1, x)

ParseAlphabet == {"0", "1", "2", "f", "Z", "-"}
ParseBases == {NaN} \cup {Num(b) : b \in {1, 2, 3, 10, 16, 35, 36, 37}}

NotCalled == [called |-> FALSE, ret |-> Ok(0)]

mainIdle ==
  /\ pc = "idle" /\ jsonData = NullJson /\ processedData = NullData
  /\ stderr = <<>> /\ stdout = NoOutput
solveIdle ==
  /\ solveArgs = [allPoints |-> <<>>, k |-> KNum(0)]
  /\ solveRets = <<>> /\ poly = <<>>
parseIdle ==
  /\ parseArgs = [str |-> Undefined, base |-> NaN] /\ parseRet = NotCalled

----------------------------------------------------------------------------
(* main(): one run of the program.                                         *)

Init ==
  /\ pc = "start" /\ jsonData = NullJson /\ processedData = NullData
  /\ stderr = <<>> /\ stdout = NoOutput
  /\ solveIdle /\ parseIdle

(* getInputData() resolves with the parsed JSON object.                    *)
GetInputData ==
  /\ pc = "start"
  /\ \E data \in Inputs : jsonData' = data
  /\ pc' = "acquired"
  /\ UNCHANGED <<processedData, stderr, stdout, solveVars, parseVars>>

(* getInputData() reports an error and resolves with null; main returns.   *)
GetInputDataFails ==
  /\ pc = "start"
  /\ jsonData' = NullJson
  /\ stderr' = Append(stderr, "input")
  /\ pc' = "done"
  /\ UNCHANGED <<processedData, stdout, solveVars, parseVars>>

(* main, lines 199-203.                                                    *)
Decode ==
  /\ pc = "acquired"
  /\ processedData' = decodeFromJSON(jsonData)
  /\ stderr' = IF processedData'.null THEN Append(stderr, "decoding") ELSE stderr
  /\ pc' = IF processedData'.null THEN "done" ELSE "decoded"
  /\ UNCHANGED <<jsonData, stdout, solveVars, parseVars>>

(* main, lines 208-223.                                                    *)
Solve ==
  /\ pc = "decoded"
  /\ IF lengthLessThan(Len(processedData.points), processedData.k)
       THEN /\ stderr' = Append(stderr, "insufficient")
            /\ stdout' = stdout
       ELSE LET constant == findConstantWithLagrange(processedData.points,
                                                     processedData.k)
            IN IF constant.ok
                 THEN /\ stdout' = [printed |-> TRUE, val |-> constant.val]
                      /\ stderr' = stderr
                 ELSE /\ stderr' = Append(stderr, "critical")
                      /\ stdout' = stdout
  /\ pc' = "done"
  /\ UNCHANGED <<jsonData, processedData, solveVars, parseVars>>

Next == GetInputData \/ GetInputDataFails \/ Decode \/ Solve

Spec == Init /\ [][Next]_vars

----------------------------------------------------------------------------
(* findConstantWithLagrange called repeatedly on the samples of a          *)
(* polynomial: poly holds its coefficients, constant term first.           *)

InitSolve ==
  /\ mainIdle /\ parseIdle
  /\ solveRets = <<>>
  /\ \E n \in 1..MaxK :
       /\ poly \in [1..n -> Coeffs]
       /\ \E xs \in [1..n -> Xs] :
            solveArgs = [allPoints |-> [i \in 1..n |->
                                          [x |-> xs[i], y |-> Eval(poly, 1, xs[i])]],
                         k |-> KNum(n)]

CallFindConstant_splices ==
  /\ Len(solveRets) < MaxCalls
  /\ solveRets' = Append(solveRets,
                         findConstantWithLagrange(solveArgs.allPoints, solveArgs.k))
  /\ solveArgs' = [solveArgs EXCEPT !.allPoints = SubSeq(@, 2, Len(@))]
  /\ UNCHANGED <<poly, mainVars, parseVars>>

CallFindConstant ==
  /\ Len(solveRets) < MaxCalls
  /\ solveRets' = Append(solveRets,
                         findConstantWithLagrange(solveArgs.allPoints, solveArgs.k))
  /\ UNCHANGED <<solveArgs, poly, mainVars, parseVars>>

NextSolve == CallFindConstant

SpecSolve == InitSolve /\ [][NextSolve]_vars

----------------------------------------------------------------------------
(* parseBigInt called on a digit string and a base.                        *)

InitParse ==
  /\ mainIdle /\ solveIdle
  /\ parseRet = NotCalled
  /\ parseArgs \in [str : {Str(s) : s \in SeqsUpTo(ParseAlphabet, MaxLen)},
                    base : ParseBases]

CallParseBigInt ==
  /\ ~parseRet.called
  /\ parseRet' = [called |-> TRUE, ret |-> parseBigInt(parseArgs.str, parseArgs.base)]
  /\ UNCHANGED <<parseArgs, mainVars, solveVars>>

NextParse == CallParseBigInt

SpecParse == InitParse /\ [][NextParse]_vars

----------------------------------------------------------------------------
(* Properties of parseBigInt (checked under SpecParse).                    *)

(* The conventional digit value of a character: 0-9, then a-z or A-Z.      *)
StdDigit(c) ==
  IF \E d \in 0..35 : LowerDigits[d + 1] = c
    THEN CHOOSE d \in 0..35 : LowerDigits[d + 1] = c
  ELSE IF \E d \in 10..35 : UpperLetters[d - 9] = c
    THEN CHOOSE d \in 10..35 : UpperLetters[d - 9] = c
  ELSE 36

RECURSIVE Pow(_, _)
Pow(b, e) == IF e = 0 THEN 1 ELSE b * Pow(b, e - 1)

RECURSIVE PositionalSum(_, _, _)
(* Sum over the positions i..Len(s) of digit * b^(number of digits after). *)
PositionalSum(s, b, i) ==
  IF i > Len(s) THEN 0
  ELSE StdDigit(s[i]) * Pow(b, Len(s) - i) + PositionalSum(s, b, i + 1)

ValidBase(base) == ~base.nan /\ base.v >= 2 /\ base.v <= 36

ValidDigits(str, base) ==
  /\ ValidBase(base)
  /\ ~str.undef
  /\ Len(str.s) >= 1
  /\ \A i \in 1..Len(str.s) : StdDigit(str.s[i]) < base.v

(* C2: for a base in 2..36 and a non-empty digit string all of whose       *)
(* digits are below the base, parseBigInt returns the positional value of  *)
(* the string in that base.                                                *)
C2_PositionalValue ==
  (parseRet.called /\ ValidDigits(parseArgs.str, parseArgs.base))
    => parseRet.ret = Ok(PositionalSum(parseArgs.str.s, parseArgs.base.v, 1))

C2_Witness ==
  /\ parseRet.called
  /\ parseArgs.str = Str(<<"f", "f">>)
  /\ parseArgs.base = Num(16)
  /\ parseRet.ret = Ok(255)

(* C4: parseBigInt fails (returns no integer) whenever some digit is not   *)
(* below the base, the digit string is empty, or the base is outside       *)
(* 2..36.                                                                  *)
C4_InvalidInputFails ==
  (parseRet.called /\ ~ValidDigits(parseArgs.str, parseArgs.base))
    => ~parseRet.ret.ok

----------------------------------------------------------------------------
(* Properties of findConstantWithLagrange (checked under SpecSolve).       *)

DistinctXs(points) ==
  \A a, b \in 1..Len(points) : a # b => points[a].x # points[b].x

(* C1: on the k samples of an integer polynomial of degree k-1 at k        *)
(* distinct x-coordinates, the result is the polynomial's constant term.   *)
C1_RecoversConstant ==
  DistinctXs(solveArgs.allPoints)
    => \A r \in 1..Len(solveRets) : solveRets[r] = Ok(poly[1])

SpecPoints == <<[x |-> 1, y |-> 4], [x |-> 2, y |-> 7], [x |-> 3, y |-> 12]>>

(* C8 as stated: for (1,4),(2,7),(3,12) with k = 3 the result is 1.        *)
C8_ReturnsOne ==
  (solveArgs.allPoints = SpecPoints /\ solveArgs.k = KNum(3))
    => \A r \in 1..Len(solveRets) : solveRets[r] = Ok(1)

(* C8 amended: for (1,4),(2,7),(3,12) with k = 3 the result is 3 (the      *)
(* points lie on x^2 + 3).                                                 *)
C8_ReturnsThree ==
  (solveArgs.allPoints = SpecPoints /\ solveArgs.k = KNum(3))
    => \A r \in 1..Len(solveRets) : solveRets[r] = Ok(3)

C8_Witness ==
  /\ solveArgs.allPoints = SpecPoints
  /\ solveArgs.k = KNum(3)
  /\ Len(solveRets) >= 1
  /\ poly = <<3, 0, 1>>

----------------------------------------------------------------------------
(* Properties of a run of main (checked under Spec).                       *)

KIsPositiveInteger(kval) ==
  kval.t = "number" /\ kval.v2 >= 2 /\ kval.v2 % 2 = 0

Reported(e) == \E i \in 1..Len(stderr) : stderr[i] = e

(* C3: with fewer decoded points than the threshold, the insufficient-     *)
(* points error is reported and no constant term is ever output.           *)
C3_InsufficientPoints ==
  (/\ ~processedData.null
   /\ processedData.k.t = "number"
   /\ 2 * Len(processedData.points) < processedData.k.v2)
    => /\ ~stdout.printed
       /\ pc = "done" => stderr = <<"insufficient">>

C3_Witness ==
  /\ pc = "done"
  /\ Len(processedData.points) = 2
  /\ processedData.k = KNum(3)
  /\ stderr = <<"insufficient">>
  /\ ~stdout.printed

(* C6: when the keys entry or k is missing, or k is not a positive         *)
(* integer, decoding fails and the run ends without a constant term.       *)
C6_BadThresholdFails ==
  (/\ pc = "done"
   /\ ~jsonData.null
   /\ ~(jsonData.keys.present /\ KIsPositiveInteger(jsonData.keys.k)))
    => /\ ~stdout.printed
       /\ Reported("decoding")

LacksField(m) == ~isNaN(m.key) /\ (m.base.undef \/ m.value.undef)

(* C7: when an entry under a numeric key lacks base or value, decoding     *)
(* yields no PointSet, the run ends there and no constant term is output.  *)
C7_MissingFieldFails ==
  (/\ ~jsonData.null
   /\ \E i \in 1..Len(jsonData.members) : LacksField(jsonData.members[i]))
    => /\ processedData.null
       /\ ~stdout.printed
       /\ pc # "decoded"
       /\ pc = "done" => stderr = <<"decoding">>

C7_Witness ==
  /\ pc = "done"
  /\ Len(jsonData.members) = 2
  /\ \E i, j \in 1..2 :
       /\ LacksField(jsonData.members[i])
       /\ ~isNaN(jsonData.members[j].key)
       /\ ~LacksField(jsonData.members[j])
  /\ stderr = <<"decoding">>

(* C10: when two of the selected points share an x-coordinate the run ends *)
(* with the critical error and no constant term; a constant term is output *)
(* only for pairwise distinct selected x-coordinates.                      *)
C10_DuplicateX ==
  LET selected == slice(processedData.points, processedData.k)
  IN /\ (/\ pc = "done"
         /\ ~processedData.null
         /\ ~lengthLessThan(Len(processedData.points), processedData.k)
         /\ ~DistinctXs(selected))
          => (~stdout.printed /\ stderr = <<"critical">>)
     /\ stdout.printed => DistinctXs(selected)

C10_Witness ==
  /\ pc = "done"
  /\ Len(jsonData.members) = 2
  /\ jsonData.members[1].key = <<"1">>
  /\ jsonData.members[2].key = <<"0", "1">>
  /\ jsonData.keys.k = KNum(2)
  /\ stderr = <<"critical">>
  /\ ~stdout.printed

----------------------------------------------------------------------------
(* Order of the decoded points (checked under Spec).                       *)

NumericMembers(members) == SelectSeq(members, LAMBDA m : ~isNaN(m.key))

PointOf(m) ==
  [x |-> BigIntOfKey(m.key), y |-> parseBigInt(m.value, parseInt10(m.base)).val]

(* The points of the numeric keys in the order the input declares them.    *)
DeclaredPoints(members) ==
  LET ms == NumericMembers(members)
  IN [i \in 1..Len(ms) |-> PointOf(ms[i])]

(* The points of the numeric keys with the canonical array-index keys      *)
(* first, ascending, then the other keys in the order declared.            *)
EnumeratedPoints(members) ==
  LET ms == NumericMembers(members)
      n == Len(ms)
      Before(a, b) ==
        IF IsArrayIndex(ms[a].key) /\ IsArrayIndex(ms[b].key)
          THEN BigIntOfKey(ms[a].key) < BigIntOfKey(ms[b].key)
        ELSE IF ~IsArrayIndex(ms[a].key) /\ ~IsArrayIndex(ms[b].key)
          THEN a < b
        ELSE IsArrayIndex(ms[a].key)
      order == CHOOSE p \in [1..n -> 1..n] :
                 \A a, b \in 1..n : a < b => Before(p[a], p[b])
  IN [i \in 1..n |-> PointOf(ms[order[i]])]

FirstK(points, kval) == SubSeq(points, 1, Min(kval.v2 \div 2, Len(points)))

(* C5 as stated: the decoded points are in declaration order, and the      *)
(* constant term output is computed from the first k declared points only. *)
C5_FirstDeclared ==
  (~processedData.null /\ KIsPositiveInteger(processedData.k))
    => LET points == DeclaredPoints(jsonData.members)
       IN /\ processedData.points = points
          /\ stdout.printed =>
               Ok(stdout.val) = findConstantWithLagrange(
                                  FirstK(points, processedData.k), processedData.k)

(* C5 amended: the decoded points are in property enumeration order        *)
(* (array-index keys ascending, then the other numeric keys as declared),  *)
(* and the constant term output is computed from the first k of them only. *)
C5_FirstEnumerated ==
  (~processedData.null /\ KIsPositiveInteger(processedData.k))
    => LET points == EnumeratedPoints(jsonData.members)
       IN /\ processedData.points = points
          /\ stdout.printed =>
               Ok(stdout.val) = findConstantWithLagrange(
                                  FirstK(points, processedData.k), processedData.k)

C5_Witness ==
  /\ pc = "done"
  /\ stdout.printed
  /\ Len(jsonData.members) = 2
  /\ jsonData.members[1].key = <<"2">>
  /\ jsonData.members[2].key = <<"1">>
  /\ jsonData.keys.k = KNum(1)
  /\ processedData.points[1].x = 1

====
